---- MODULE Spec2Model ----
(***************************************************************************)
(* Model of src/bot.py: the check_live reconciliation loop, the live_state *)
(* marker store it dedups against, and the TwitchAPI token cache.          *)
(*                                                                         *)
(* One check_live run is modelled step by step: every action is the code   *)
(* between two suspension points (await) of the coroutine, so the position *)
(* of the coroutine (pc, gi, ri) is part of the state.                     *)
(***************************************************************************)
EXTENDS Integers, Sequences, FiniteSets, TLC

\* ---------------------------------------------------------------- bounds
\* number of check_live iterations a behaviour of Spec may run
MaxTicks == 1
\* number of iterations a behaviour of SpecSeq runs (no call fails)
SeqTicks == 3
\* number of iterations a behaviour of SpecIso runs (three registered rows)
IsoTicks == 1
\* number of iterations a behaviour of SpecRetry runs (one community)
RetryTicks == 2
\* last clock value of SpecToken
MaxNow == 6
\* number of iterations a behaviour of SpecRole runs (one community)
RoleTicks == 3
\* longest list of channels search_channels returns in SpecResolve
MaxChans == 2
\* number of iterations a behaviour of SpecRace runs
RaceTicks == 1
\* number of iterations a behaviour of SpecStamp runs
StampTicks == 3

\* ------------------------------------------------------- program constants
\* _get_token: "now < self._token_expiry - 60"
TokenMargin == 60
\* _get_token: j.get("expires_in", 3600)
DefaultExpiresIn == 3600
\* @tasks.loop(minutes=2)
TickSeconds == 120

\* ------------------------------------------------------------ value sets
None == "None"
\* bot.guilds, iterated in this order
Guilds == {1, 2}
NumGuilds == Cardinality(Guilds)
\* users.discord_user_id; db_list_users orders rows by it
Owners == {1, 2, 3}
\* users.twitch_id
Tids == {"t1", "t2", "t3"}
NoUser == "NoUser"
\* stream.get("id") of a live stream: "" is a missing or empty id
StreamIds == {"A", "B"}
IdValues == StreamIds \cup {""}
\* streams.get(tid): None (absent from the response) or the stream dict
NoStream == [live |-> FALSE, id |-> ""]
Live(sid) == [live |-> TRUE, id |-> sid]
StreamValues == {NoStream} \cup {Live(s) : s \in IdValues}
\* kinds of channel bot.get_channel can return for a configured id
DestKinds == {"none", "text", "other"}
\* access tokens the token endpoint hands out
Tokens == {"k1", "k2"}

VARIABLES
  \* ---- Session Store (Postgres) and chat platform
  dest,        \* settings.notify_channel_id per guild, by kind of channel
  users,       \* users table: owner -> twitch_id (NoUser: no row)
  marker,      \* live_state.stream_id per twitch_id (None: no row / NULL)
  hasRole,     \* per guild, the members that hold the live role
  liveRole,    \* guilds in which get_role_by_id_or_name finds the role
  \* ---- TwitchAPI
  token,       \* self._token
  tokenExpiry, \* self._token_expiry
  now,         \* time.time()
  \* ---- tasks.loop driver and the check_live frame
  loopState,   \* "running" | "failed"
  ticksLeft,   \* iterations the behaviour may still start
  pc,          \* position of the coroutine
  gi,          \* guild of the outer loop
  ri,          \* index into rows of the inner loop
  rows,        \* rows = db_list_users()
  streams,     \* streams = await get_streams(...)
  u,           \* u = await get_user_by_login(...)
  \* ---- observation (history) variables
  watch,       \* the subject the history variables follow
  raisedAt,    \* call whose exception left the last check_live run
  reconciled,  \* guilds whose row loop completed in this run
  fetchKind,   \* outcome of the get_streams of this pass
  watchFail,   \* a send or role call for watch raised in this pass
  otherFail,   \* a send or role call for another subject raised in this pass
  storeFail,   \* a db_set_stream_id call raised in this pass
  preMarker,   \* marker of watch when the pass fetched
  passSent,    \* announcements sent for watch in this pass
  tickObs,     \* what this run's fetches observed for watch
  hist,        \* pattern of the completed runs for watch
  sent,        \* announcements sent for watch while hist follows a pattern
  runId,       \* stream id of the session watch is observed in
  runSent,     \* announcements sent for watch in that session
  lastCall,    \* what the last _get_token call saw and did
  \* ---- TwitchAPI calls made outside check_live
  lastFetch,   \* what the last direct get_streams call was given and did
  lastResolve, \* what the last resolve_user call was given and did
  \* ---- observation of started_at
  stamp,       \* started_at of watch's stream in the last response (0: the
               \* behaviour does not vary it)
  stampVaried, \* two responses reported different started_at for watch
  \* ---- observation of the previous pass
  \* ---- on_presence_update, one handler run for watch's member
  ppc,         \* position of the handler coroutine
  pStream,     \* stream_id the handler read from its get_streams
  pSent,       \* stream id the handler announced for watch (None: nothing)
  prevObs      \* status the last completed pass observed for watch, "unknown"
               \* when a send or role call for watch raised in it, when its
               \* fetch failed or when an exception ended the run

cfgVars == <<dest, users, liveRole, watch>>
storeVars == <<marker, hasRole>>
tokenVars == <<token, tokenExpiry, lastCall>>
frameVars == <<pc, gi, ri, rows, streams, u>>
passVars == <<fetchKind, watchFail, otherFail, storeFail, preMarker, passSent>>
seqVars == <<tickObs, hist, sent, runId, runSent>>
apiVars == <<lastFetch, lastResolve>>
stampVars == <<stamp, stampVaried>>
presVars == <<ppc, pStream, pSent>>
vars == <<dest, users, marker, hasRole, liveRole, token, tokenExpiry, now,
          loopState, ticksLeft, pc, gi, ri, rows, streams, u, watch,
          raisedAt, reconciled, fetchKind, watchFail, otherFail, storeFail,
          preMarker, passSent, tickObs, hist, sent, runId, runSent, lastCall,
          lastFetch, lastResolve, stamp, stampVaried, ppc, pStream, pSent,
          prevObs>>

\* ------------------------------------------------------------- Session Store
db_get_stream_id(m, tid) == m[tid]

MutAlwaysNew(m, tid, sid) == FALSE
MutStampKeyed(m, tid, sid) == m[tid] = sid /\ ~stampVaried
MutPerCommunity(m, tid, sid) == m[tid] = sid /\ gi = 1
already_announced(m, tid, sid) == db_get_stream_id(m, tid) = sid

MutSetNothing(m, tid, sid) == m
MutSetForLastRow(m, tid, sid) ==
  IF ri = Len(rows) THEN [m EXCEPT ![tid] = sid] ELSE m
db_set_stream_id(m, tid, sid) == [m EXCEPT ![tid] = sid]

MutKeepMarker(m, tid) == m
db_clear_live(m, tid) == [m EXCEPT ![tid] = None]

\* db_list_users: the owners that have a row, ORDER BY discord_user_id
RECURSIVE SortedSeq(_)
SortedSeq(S) ==
  IF S = {} THEN <<>>
  ELSE LET lo == CHOOSE x \in S : \A y \in S : x <= y
       IN <<lo>> \o SortedSeq(S \ {lo})
db_list_users(tbl) == SortedSeq({o \in Owners : tbl[o] # NoUser})

\* g.get_member(discord_user_id): who is a member of which guild
Members(g) == IF g = 1 THEN {1, 2, 3} ELSE {1}

\* ------------------------------------------------------------------ TwitchAPI
\* the token endpoint never hands out the token the client already holds
Issue(tok) == IF tok = "k1" THEN "k2" ELSE "k1"

\* responses of the token endpoint: access_token (None: absent) and
\* expires_in (has_expires FALSE: absent, the code then takes 3600)
TokenResponse(a, e) == [access |-> a, has_expires |-> TRUE, expires_in |-> e]
BareResponse(a) == [access |-> a, has_expires |-> FALSE, expires_in |-> 0]
ExpiresOf(resp) ==
  IF resp.has_expires THEN resp.expires_in ELSE DefaultExpiresIn

MutTokenFreshLe(tok, expiry, t) == tok # None /\ t <= expiry - TokenMargin
TokenFresh(tok, expiry, t) == tok # None /\ t < expiry - TokenMargin

MutDropOnError(tok, expiry, t, resp) ==
  IF tok # None /\ t < expiry - TokenMargin
  THEN [token |-> tok, expiry |-> expiry, ret |-> tok, exch |-> 0]
  ELSE IF resp.access = None
       THEN [token |-> None, expiry |-> 0, ret |-> "raise", exch |-> 1]
       ELSE [token |-> resp.access, expiry |-> t + ExpiresOf(resp),
             ret |-> resp.access, exch |-> 1]

\* _get_token: the cache after the call, the value returned ("raise" when the
\* RuntimeError leaves the call) and the number of exchange requests made
get_token(tok, expiry, t, resp) ==
  IF TokenFresh(tok, expiry, t)
  THEN [token |-> tok, expiry |-> expiry, ret |-> tok, exch |-> 0]
  ELSE IF resp.access = None
       THEN [token |-> tok, expiry |-> expiry, ret |-> "raise", exch |-> 1]
       ELSE [token |-> resp.access, expiry |-> t + ExpiresOf(resp),
             ret |-> resp.access, exch |-> 1]

\* what lastCall records of one _get_token call
\* (cached, remaining: the cache before the call; issued: the token the
\* exchange response carried; after: the cache after the call)
CallRecord(tok, expiry, t, resp, res) ==
  [cached |-> tok, remaining |-> expiry - t, ret |-> res.ret,
   exch |-> res.exch, after |-> res.token,
   issued |-> IF res.exch = 0 THEN None ELSE resp.access]
NoCall == [cached |-> None, remaining |-> 0, ret |-> None, exch |-> 0,
           after |-> None, issued |-> None]

\* ------------------------------------------------------- observation helpers
\* what one streams response says about a subject: None (absent), or the id
ObsKey(st) == IF st.live THEN st.id ELSE None

\* the branch of the row loop a stream value selects (line 571)
StatusOf(st) == IF st.live THEN "live" ELSE "off"

\* the observation of a whole run: "unset" before the first fetch, "mixed"
\* when two fetches of the run disagree
MergeObs(old, k) ==
  IF old = "unset" THEN k ELSE IF old = k THEN old ELSE "mixed"

Phase(p, i) == [ph |-> p, id |-> i]
Lost == Phase("other", "")
\* pattern of the completed runs; it is Lost as soon as a call fails, a run
\* fetches nothing, or its fetches disagree about watch:
\*   start              no run yet, and watch had no marker initially
\*   L(x)               every run so far observed watch live with id x
\*   LO(x)              runs live x (one or more), then one run offline
\*   LOL(x)             live x, offline, live x again
HistNext(h, obs) ==
  IF obs \in {"unset", "mixed", ""} \/ h.ph = "other"
  THEN Lost
  ELSE IF obs = None
       THEN IF h.ph = "L" THEN Phase("LO", h.id) ELSE Lost
       ELSE IF h.ph = "start" THEN Phase("L", obs)
       ELSE IF h.ph = "L" /\ h.id = obs THEN Phase("L", obs)
       ELSE IF h.ph = "LO" /\ h.id = obs THEN Phase("LOL", obs)
       ELSE Lost

\* a call failed: the pattern is lost and sent is no longer kept
Failed ==
  /\ hist' = Lost
  /\ sent' = 0

\* ------------------------------------------------------- tasks.loop driver
\* exception classes tasks.loop retries the body after (aiohttp.ClientError);
\* any other exception leaving the body ends the loop task
Retried(cls) == cls = "ClientError"

NoStreams == [t \in Tids |-> NoStream]

\* an exception leaves check_live at call `at`: the frame is abandoned where
\* it stands (gi, ri keep the place for the record)
Escape(at, cls) ==
  /\ pc' = "idle"
  /\ raisedAt' = at
  /\ loopState' = IF Retried(cls) THEN "running" ELSE "failed"
  /\ streams' = NoStreams
  /\ u' = None
  /\ tickObs' = "unset"
  /\ prevObs' = "unknown"
  /\ Failed
  /\ UNCHANGED <<gi, ri, rows, reconciled, passVars, runId, runSent>>

\* check_live.start() fires the body every two minutes
TickStart ==
  /\ pc = "idle"
  /\ loopState = "running"
  /\ ticksLeft > 0
  /\ ticksLeft' = ticksLeft - 1
  /\ now' = now + TickSeconds
  /\ pc' = "guild"
  /\ gi' = 1
  /\ ri' = 1
  /\ rows' = <<>>
  /\ raisedAt' = "none"
  /\ reconciled' = {}
  /\ UNCHANGED <<cfgVars, apiVars, presVars, stampVars, prevObs, storeVars, tokenVars, loopState, streams, u,
                 passVars, seqVars>>

MutSkipClears(dbOk) ==
  /\ pc = "guild"
  /\ gi \in Guilds
  /\ dest[gi] # "text" \/ db_list_users(users) = <<>>
  /\ IF ~dbOk
     THEN Escape("store", "DbError")
     ELSE /\ gi' = gi + 1
          /\ UNCHANGED <<pc, ri, rows, streams, u, raisedAt, reconciled, prevObs,
                         loopState, passVars, seqVars>>
  /\ UNCHANGED <<cfgVars, apiVars, presVars, stampVars, marker, tokenVars, now, ticksLeft>>
  /\ hasRole' = [hasRole EXCEPT ![gi] = {}]

\* lines 550-561: the guild has no usable destination, or nobody is registered
\*   dbOk = FALSE       db_get_notify_channel / db_list_users raises
GuildSkip(dbOk) ==
  /\ pc = "guild"
  /\ gi \in Guilds
  /\ dest[gi] # "text" \/ db_list_users(users) = <<>>
  /\ IF ~dbOk
     THEN Escape("store", "DbError")
     ELSE /\ gi' = gi + 1
          /\ UNCHANGED <<pc, ri, rows, streams, u, raisedAt, reconciled, prevObs,
                         loopState, passVars, seqVars>>
  /\ UNCHANGED <<cfgVars, apiVars, presVars, stampVars, storeVars, tokenVars, now, ticksLeft>>

\* responses the user_ids of a request can get: only requested ids appear
StreamsFor(tbl) ==
  {obs \in [Tids -> StreamValues] :
     \A t \in Tids : (\A o \in Owners : tbl[o] # t) => obs[t] = NoStream}

\* token endpoint responses during a run: a token with no expires_in, or
\* an error body without access_token
TickResponses == {BareResponse(Issue(token)), BareResponse(None)}
GoodResponse == BareResponse(Issue(token))
FetchOutcomes == {"ok", "non2xx", "transport", "store"}

\* get_streams, lines 184-193: the mapping built from the response; an error
\* status with a JSON body has no "data" key and gives the empty mapping
get_streams(out, obs) ==
  IF out = "ok" THEN obs ELSE NoStreams

\* the ids of a list, and the part of a response about them
IdsOf(ids) == {ids[i] : i \in 1..Len(ids)}
Only(ids, obs) == [t \in Tids |-> IF t \in IdsOf(ids) THEN obs[t] ELSE NoStream]

MutNoShortCircuit(ids, tok, expiry, t, resp, out, obs) ==
  LET tk == get_token(tok, expiry, t, resp)
  IN IF tk.ret = "raise"
     THEN [raised |-> TRUE, ret |-> NoStreams, exch |-> tk.exch, reqs |-> 0,
           token |-> tk.token, expiry |-> tk.expiry]
     ELSE [raised |-> out = "transport",
           ret |-> IF out = "transport" THEN NoStreams
                   ELSE Only(ids, get_streams(out, obs)),
           exch |-> tk.exch, reqs |-> 1,
           token |-> tk.token, expiry |-> tk.expiry]

\* get_streams, lines 184-193, as one call: whether an exception leaves it,
\* the mapping it returns otherwise (NoStreams is the empty mapping), the
\* token exchanges and streams requests it made, the token cache after it
get_streams_call(ids, tok, expiry, t, resp, out, obs) ==
  IF ids = <<>>
  THEN [raised |-> FALSE, ret |-> NoStreams, exch |-> 0, reqs |-> 0,
        token |-> tok, expiry |-> expiry]
  ELSE LET tk == get_token(tok, expiry, t, resp)
       IN IF tk.ret = "raise"
          THEN [raised |-> TRUE, ret |-> NoStreams, exch |-> tk.exch,
                reqs |-> 0, token |-> tk.token, expiry |-> tk.expiry]
          ELSE [raised |-> out = "transport",
                ret |-> IF out = "transport" THEN NoStreams
                        ELSE Only(ids, get_streams(out, obs)),
                exch |-> tk.exch, reqs |-> 1,
                token |-> tk.token, expiry |-> tk.expiry]

\* what lastFetch records of one direct get_streams call
FetchRecord(ids, tok, res) ==
  [ids |-> ids, cached |-> tok, raised |-> res.raised, ret |-> res.ret,
   exch |-> res.exch, reqs |-> res.reqs]
NoFetch == [ids |-> <<"none">>, cached |-> None, raised |-> FALSE,
            ret |-> NoStreams, exch |-> 0, reqs |-> 0]

\* ---- resolve_user
\* names are sequences of characters; "U" stands for the profile URL prefix
\* "https://twitch.tv/"
\* None where a user dict is expected
NoProfile == [id |-> "", login |-> <<>>, display_name |-> <<>>]
LowerChar(c) == IF c = "A" THEN "a" ELSE c
\* str.lower()
Lower(w) == [i \in 1..Len(w) |-> LowerChar(w[i])]

\* the dict resolve_user builds from a search result, lines 177-182
FromChannel(c) ==
  [id |-> c.id, login |-> c.broadcaster_login, display_name |-> c.display_name]

\* the list comprehension of line 173
RECURSIVE ExactMatches(_, _)
ExactMatches(chans, name) ==
  IF chans = <<>> THEN <<>>
  ELSE (IF Lower(Head(chans).display_name) = Lower(name)
        THEN <<Head(chans)>> ELSE <<>>) \o ExactMatches(Tail(chans), name)

MutFirstResult(name, found, chans) ==
  IF found # NoProfile THEN [ret |-> found, arg |-> name, searched |-> FALSE]
  ELSE [ret |-> IF chans = <<>> THEN NoProfile ELSE FromChannel(chans[1]),
        arg |-> name, searched |-> TRUE]

\* resolve_user, lines 166-182: what it returns, the login it passed to
\* get_user_by_login and whether it called search_channels
\*   found   what get_user_by_login(name) returns (None or a user)
\*   chans   what search_channels(name) returns
resolve_user(name, found, chans) ==
  IF found # NoProfile
  THEN [ret |-> found, arg |-> name, searched |-> FALSE]
  ELSE LET exact == ExactMatches(chans, name)
           candidate == IF exact # <<>> THEN <<exact[1]>>
                        ELSE IF chans # <<>> THEN <<chans[1]>> ELSE <<>>
       IN [ret |-> IF candidate = <<>> THEN NoProfile
                   ELSE FromChannel(candidate[1]),
           arg |-> name, searched |-> TRUE]

ResolveRecord(name, found, chans, res) ==
  [called |-> TRUE, name |-> name, found |-> found, chans |-> chans,
   ret |-> res.ret, arg |-> res.arg, searched |-> res.searched]
NoResolve ==
  [called |-> FALSE, name |-> <<>>, found |-> NoProfile, chans |-> <<>>,
   ret |-> NoProfile, arg |-> <<>>, searched |-> FALSE]

\* lines 550-564: destination is a text channel, rows are loaded, the batch
\* is fetched
\*   out = "store"      db_get_notify_channel / db_list_users raises
\*   out = "transport"  the streams request raises (aiohttp.ClientError)
\*   out = "non2xx"     an error status with a JSON body
GuildFetch(out, obs, resp, sa) ==
  /\ pc = "guild"
  /\ gi \in Guilds
  /\ dest[gi] = "text"
  /\ db_list_users(users) # <<>>
  \* inputs the step does not read are fixed
  /\ out # "ok" => obs = NoStreams
  /\ (out # "ok" \/ ~obs[watch].live) => sa = stamp
  /\ (out = "store" \/ TokenFresh(token, tokenExpiry, now)) => resp = GoodResponse
  /\ LET tk == get_token(token, tokenExpiry, now, resp)
         st == get_streams(out, obs)
         k  == ObsKey(st[watch])
     IN IF out = "store"
        THEN /\ Escape("store", "DbError")
             /\ UNCHANGED <<tokenVars, stampVars>>
        ELSE /\ token' = tk.token
             /\ tokenExpiry' = tk.expiry
             /\ lastCall' = CallRecord(token, tokenExpiry, now, resp, tk)
             /\ IF tk.ret = "raise"
                THEN /\ Escape("fetch", "RuntimeError")
                     /\ UNCHANGED stampVars
                ELSE IF out = "transport"
                THEN /\ Escape("fetch", "ClientError")
                     /\ UNCHANGED stampVars
                ELSE /\ rows' = db_list_users(users)
                     /\ streams' = st
                     /\ pc' = "row"
                     /\ ri' = 1
                     /\ fetchKind' = out
                     /\ watchFail' = FALSE
                     /\ otherFail' = FALSE
                     /\ storeFail' = FALSE
                     /\ preMarker' = marker[watch]
                     /\ passSent' = 0
                     /\ tickObs' = MergeObs(tickObs, k)
                     /\ runId' = k
                     /\ stamp' = sa
                     /\ stampVaried' = (stampVaried \/ (stamp # 0 /\ sa # stamp))
                     /\ runSent' = IF k = runId THEN runSent ELSE 0
                     /\ IF out = "ok" THEN UNCHANGED <<hist, sent>> ELSE Failed
                     /\ UNCHANGED <<gi, u, raisedAt, reconciled, loopState, prevObs>>
  /\ UNCHANGED <<cfgVars, apiVars, presVars, storeVars, now, ticksLeft>>

\* ------------------------------------------------------------ the row loop
CurOwner == rows[ri]
CurTid == users[CurOwner]
CurStream == streams[CurTid]
MutRoleWithAnnouncement ==
  /\ gi \in liveRole
  /\ rows[ri] \in Members(gi)
  /\ (users[rows[ri]] = watch /\ streams[watch].live)
        => preMarker # streams[watch].id
\* live_role and member and ...
RoleApplies == gi \in liveRole /\ CurOwner \in Members(gi)

MutAnnounceEmptyId(dbOk) ==
  /\ pc = "row"
  /\ ri <= Len(rows)
  /\ dbOk
  /\ IF CurStream.live
     THEN /\ pc' = IF ~already_announced(marker, CurTid, CurStream.id)
                   THEN "lookup" ELSE "addrole"
          /\ UNCHANGED marker
     ELSE /\ marker' = db_clear_live(marker, CurTid)
          /\ pc' = "rmrole"
  /\ UNCHANGED <<gi, ri, rows, streams, u, raisedAt, reconciled, prevObs,
                 loopState, passVars, seqVars>>
  /\ UNCHANGED <<cfgVars, apiVars, presVars, stampVars, hasRole, tokenVars, now, ticksLeft>>

\* lines 566-573 and 587-589: pick the branch of the row; the offline branch
\* deletes the marker at once
\*   dbOk = FALSE       the store call of the branch (already_announced,
\*                      db_clear_live) raises
RowBegin(dbOk) ==
  /\ pc = "row"
  /\ ri <= Len(rows)
  /\ dbOk \/ ~CurStream.live \/ CurStream.id # ""
  /\ IF ~dbOk
     THEN /\ Escape("store", "DbError")
          /\ UNCHANGED marker
     ELSE /\ IF CurStream.live
             THEN /\ pc' = IF /\ CurStream.id # ""
                              /\ ~already_announced(marker, CurTid, CurStream.id)
                           THEN "lookup" ELSE "addrole"
                  /\ UNCHANGED marker
             ELSE /\ marker' = db_clear_live(marker, CurTid)
                  /\ pc' = "rmrole"
          /\ UNCHANGED <<gi, ri, rows, streams, u, raisedAt, reconciled, prevObs,
                         loopState, passVars, seqVars>>
  /\ UNCHANGED <<cfgVars, apiVars, presVars, stampVars, hasRole, tokenVars, now, ticksLeft>>

LookupOutcomes == {"ok", "none", "transport"}

\* line 574: u = await get_user_by_login(login), outside any try
\*   out = "none"       no such login: the call returns None
\*   out = "transport"  the request raises (aiohttp.ClientError)
Lookup(out, resp) ==
  /\ pc = "lookup"
  /\ TokenFresh(token, tokenExpiry, now) => resp = GoodResponse
  /\ LET tk == get_token(token, tokenExpiry, now, resp)
     IN /\ token' = tk.token
        /\ tokenExpiry' = tk.expiry
        /\ lastCall' = CallRecord(token, tokenExpiry, now, resp, tk)
        /\ IF tk.ret = "raise"
           THEN Escape("lookup", "RuntimeError")
           ELSE IF out = "transport"
           THEN Escape("lookup", "ClientError")
           ELSE /\ u' = IF out = "ok" THEN "profile" ELSE None
                /\ pc' = "post"
                /\ UNCHANGED <<gi, ri, rows, streams, raisedAt, reconciled, prevObs,
                               loopState, passVars, seqVars>>
  /\ UNCHANGED <<cfgVars, apiVars, presVars, stampVars, storeVars, now, ticksLeft>>

\* a caught exception of a send or role call for subject tid
SideFailure(tid) ==
  /\ watchFail' = (watchFail \/ tid = watch)
  /\ otherFail' = (otherFail \/ tid # watch)
  /\ Failed

MutMarkBeforeSend(sendOk, setOk) ==
  /\ pc = "post"
  /\ u = None => sendOk
  /\ (u = None \/ ~sendOk) => setOk
  /\ LET delivered == u # None /\ sendOk
         n == IF CurTid = watch THEN 1 ELSE 0
     IN /\ marker' = IF setOk
                     THEN db_set_stream_id(marker, CurTid, CurStream.id)
                     ELSE marker
        /\ passSent' = IF delivered THEN passSent + n ELSE passSent
        /\ runSent' = IF delivered THEN runSent + n ELSE runSent
        /\ IF ~delivered
           THEN /\ SideFailure(CurTid)
                /\ UNCHANGED storeFail
           ELSE IF ~setOk
           THEN /\ storeFail' = TRUE
                /\ Failed
                /\ UNCHANGED <<watchFail, otherFail>>
           ELSE /\ sent' = IF hist.ph = "other" THEN 0 ELSE sent + n
                /\ UNCHANGED <<hist, watchFail, otherFail, storeFail>>
  /\ pc' = "addrole"
  /\ u' = None
  /\ UNCHANGED <<cfgVars, apiVars, presVars, stampVars, prevObs, hasRole, tokenVars, now, ticksLeft, loopState, gi,
                 ri, rows, streams, raisedAt, reconciled, fetchKind,
                 preMarker, tickObs, runId>>

\* lines 575-580: post_go_live, then db_set_stream_id, both inside the try
\*   u = None           post_go_live raises on user["login"] before sending
\*   sendOk = FALSE     channel.send raises
\*   setOk = FALSE      db_set_stream_id raises after the message went out
Post(sendOk, setOk) ==
  /\ pc = "post"
  /\ u = None => sendOk
  /\ (u = None \/ ~sendOk) => setOk
  /\ LET delivered == u # None /\ sendOk
         n == IF CurTid = watch THEN 1 ELSE 0
     IN /\ marker' = IF delivered /\ setOk
                     THEN db_set_stream_id(marker, CurTid, CurStream.id)
                     ELSE marker
        /\ passSent' = IF delivered THEN passSent + n ELSE passSent
        /\ runSent' = IF delivered THEN runSent + n ELSE runSent
        /\ IF ~delivered
           THEN /\ SideFailure(CurTid)
                /\ UNCHANGED storeFail
           ELSE IF ~setOk
           THEN /\ storeFail' = TRUE
                /\ Failed
                /\ UNCHANGED <<watchFail, otherFail>>
           ELSE /\ sent' = IF hist.ph = "other" THEN 0 ELSE sent + n
                /\ UNCHANGED <<hist, watchFail, otherFail, storeFail>>
  /\ pc' = "addrole"
  /\ u' = None
  /\ UNCHANGED <<cfgVars, apiVars, presVars, stampVars, prevObs, hasRole, tokenVars, now, ticksLeft, loopState, gi,
                 ri, rows, streams, raisedAt, reconciled, fetchKind,
                 preMarker, tickObs, runId>>

\* the row loop goes on with the next row whether or not the role call
\* raised: the try/except is inside the loop body
MutBreakOnFailure(i, ok) == IF ok THEN i + 1 ELSE Len(rows) + 1
RowAfter(i, ok) == i + 1

MutAddForgets(ok) ==
  /\ pc = "addrole"
  /\ IF RoleApplies /\ CurOwner \notin hasRole[gi]
     THEN IF ok
          THEN UNCHANGED <<hasRole, watchFail, otherFail, hist, sent>>
          ELSE /\ SideFailure(CurTid)
               /\ UNCHANGED hasRole
     ELSE /\ ok
          /\ UNCHANGED <<hasRole, watchFail, otherFail, hist, sent>>
  /\ ri' = RowAfter(ri, ok)
  /\ pc' = "row"
  /\ UNCHANGED <<cfgVars, apiVars, presVars, stampVars, prevObs, marker, tokenVars, now,
                 ticksLeft, loopState, gi, rows, streams, u, raisedAt,
                 reconciled, fetchKind, storeFail, preMarker, passSent,
                 tickObs, runId, runSent>>

\* lines 581-586: ensure the live role is on the member
AddRole(ok) ==
  /\ pc = "addrole"
  /\ IF RoleApplies /\ CurOwner \notin hasRole[gi]
     THEN IF ok
          THEN /\ hasRole' = [hasRole EXCEPT ![gi] = @ \cup {CurOwner}]
               /\ UNCHANGED <<watchFail, otherFail, hist, sent>>
          ELSE /\ SideFailure(CurTid)
               /\ UNCHANGED hasRole
     ELSE /\ ok
          /\ UNCHANGED <<hasRole, watchFail, otherFail, hist, sent>>
  /\ ri' = RowAfter(ri, ok)
  /\ pc' = "row"
  /\ UNCHANGED <<cfgVars, apiVars, presVars, stampVars, prevObs, marker, tokenVars, now, ticksLeft, loopState, gi,
                 rows, streams, u, raisedAt, reconciled, fetchKind, storeFail,
                 preMarker, passSent, tickObs, runId, runSent>>

\* lines 590-595: ensure the live role is off the member
RemoveRole(ok) ==
  /\ pc = "rmrole"
  /\ IF RoleApplies /\ CurOwner \in hasRole[gi]
     THEN IF ok
          THEN /\ hasRole' = [hasRole EXCEPT ![gi] = @ \ {CurOwner}]
               /\ UNCHANGED <<watchFail, otherFail, hist, sent>>
          ELSE /\ SideFailure(CurTid)
               /\ UNCHANGED hasRole
     ELSE /\ ok
          /\ UNCHANGED <<hasRole, watchFail, otherFail, hist, sent>>
  /\ ri' = RowAfter(ri, ok)
  /\ pc' = "row"
  /\ UNCHANGED <<cfgVars, apiVars, presVars, stampVars, prevObs, marker, tokenVars, now, ticksLeft, loopState, gi,
                 rows, streams, u, raisedAt, reconciled, fetchKind, storeFail,
                 preMarker, passSent, tickObs, runId, runSent>>

\* line 566: the rows of the guild are exhausted, on to the next guild; the
\* locals of the finished pass are rebound before they are read again
PassEnd ==
  /\ pc = "row"
  /\ ri > Len(rows)
  /\ reconciled' = reconciled \cup {gi}
  /\ gi' = gi + 1
  /\ pc' = "guild"
  /\ ri' = 1
  /\ streams' = NoStreams
  /\ fetchKind' = "none"
  /\ watchFail' = FALSE
  /\ otherFail' = FALSE
  /\ storeFail' = FALSE
  /\ preMarker' = None
  /\ passSent' = 0
  /\ prevObs' = IF fetchKind = "ok" /\ ~watchFail
                 THEN StatusOf(streams[watch]) ELSE "unknown"
  /\ UNCHANGED <<cfgVars, apiVars, presVars, stampVars, storeVars, tokenVars, now, ticksLeft, loopState,
                 rows, u, raisedAt, seqVars>>

\* line 550: bot.guilds is exhausted, check_live returns
TickEnd ==
  /\ pc = "guild"
  /\ gi \notin Guilds
  /\ pc' = "idle"
  /\ hist' = HistNext(hist, tickObs)
  /\ sent' = IF hist' = Lost THEN 0 ELSE sent
  /\ tickObs' = "unset"
  /\ UNCHANGED <<cfgVars, apiVars, presVars, stampVars, prevObs, storeVars, tokenVars, now, ticksLeft, loopState, gi,
                 ri, rows, streams, u, raisedAt, reconciled, passVars, runId,
                 runSent>>

\* ------------------------------------------------- on_presence_update
\* the member whose presence changed: the first owner registered with watch,
\* in the first guild
PresOwner ==
  CHOOSE o \in Owners :
    users[o] = watch /\ \A q \in Owners : users[q] = watch => o <= q
PresGuild == 1

\* lines 303-324: the event arrives; "stopped" is streaming before and not
\* after, "started" is streaming after
PresenceStart(evt) ==
  /\ ppc = "idle"
  /\ \E o \in Owners : users[o] = watch
  /\ ppc' = IF evt = "stopped" THEN "unrole" ELSE "resolve"
  /\ UNCHANGED <<cfgVars, apiVars, stampVars, prevObs, storeVars, tokenVars,
                 now, loopState, ticksLeft, frameVars, raisedAt, reconciled,
                 passVars, seqVars, pStream, pSent>>

\* lines 314-320: stopped streaming, the live role is taken off
PresenceUnrole(ok) ==
  /\ ppc = "unrole"
  /\ ok \/ (PresGuild \in liveRole /\ PresOwner \in hasRole[PresGuild])
  /\ hasRole' = IF ok /\ PresGuild \in liveRole
                THEN [hasRole EXCEPT ![PresGuild] = @ \ {PresOwner}]
                ELSE hasRole
  /\ ppc' = "done"
  /\ UNCHANGED <<cfgVars, apiVars, stampVars, prevObs, marker, tokenVars,
                 now, loopState, ticksLeft, frameVars, raisedAt, reconciled,
                 passVars, seqVars, pStream, pSent>>

\* lines 335-348: resolve_user(login) and the upsert of the mapping; the
\* member is registered with watch already, so the upsert rewrites its row
\*   found = FALSE      resolve_user returns None or raises: return
PresenceResolve(found) ==
  /\ ppc = "resolve"
  /\ LET tk == get_token(token, tokenExpiry, now, GoodResponse)
     IN /\ token' = tk.token
        /\ tokenExpiry' = tk.expiry
        /\ lastCall' = CallRecord(token, tokenExpiry, now, GoodResponse, tk)
  /\ ppc' = IF found THEN "fetch" ELSE "done"
  /\ UNCHANGED <<cfgVars, apiVars, stampVars, prevObs, storeVars, now,
                 loopState, ticksLeft, frameVars, raisedAt, reconciled,
                 passVars, seqVars, pStream, pSent>>

\* lines 350-366: get_streams([u["id"]]), then without suspension the
\* already_announced test and the destination lookup
\*   out = "transport"  the request raises: caught at line 357, return
PresenceFetch(out, sv) ==
  /\ ppc = "fetch"
  /\ out # "ok" => sv = NoStream
  /\ LET res == get_streams_call(<<watch>>, token, tokenExpiry, now,
                                 GoodResponse, out,
                                 [NoStreams EXCEPT ![watch] = sv])
         stream == res.ret[watch]
     IN /\ token' = res.token
        /\ tokenExpiry' = res.expiry
        /\ IF res.raised \/ ~stream.live
           THEN /\ ppc' = "done"
                /\ UNCHANGED pStream
           ELSE /\ pStream' = stream.id
                /\ ppc' = IF /\ stream.id # ""
                              /\ ~already_announced(marker, watch, stream.id)
                              /\ dest[PresGuild] = "text"
                           THEN "send" ELSE "role"
  /\ UNCHANGED <<cfgVars, apiVars, stampVars, prevObs, storeVars, now,
                 lastCall, loopState, ticksLeft, frameVars, raisedAt,
                 reconciled, passVars, seqVars, pSent>>

\* lines 367-371: post_go_live returns and the marker is written, or it
\* raises and the exception is caught
PresenceSend(sendOk) ==
  /\ ppc = "send"
  /\ marker' = IF sendOk THEN db_set_stream_id(marker, watch, pStream)
               ELSE marker
  /\ pSent' = IF sendOk THEN pStream ELSE pSent
  /\ ppc' = "role"
  /\ UNCHANGED <<cfgVars, apiVars, stampVars, prevObs, hasRole, tokenVars,
                 now, loopState, ticksLeft, frameVars, raisedAt, reconciled,
                 passVars, seqVars, pStream>>

\* lines 373-378: ensure the live role is on the member
PresenceRole(ok) ==
  /\ ppc = "role"
  /\ ok \/ (PresGuild \in liveRole /\ PresOwner \notin hasRole[PresGuild])
  /\ hasRole' = IF ok /\ PresGuild \in liveRole
                THEN [hasRole EXCEPT ![PresGuild] = @ \cup {PresOwner}]
                ELSE hasRole
  /\ ppc' = "done"
  /\ UNCHANGED <<cfgVars, apiVars, stampVars, prevObs, marker, tokenVars,
                 now, loopState, ticksLeft, frameVars, raisedAt, reconciled,
                 passVars, seqVars, pStream, pSent>>

\* ------------------------------------------------------------ specifications
UserTable(a, b, c) == [o \in Owners |-> IF o = 1 THEN a ELSE IF o = 2 THEN b ELSE c]
DestTable(a, b) == [g \in Guilds |-> IF g = 1 THEN a ELSE b]
Registered(tbl) == {tbl[o] : o \in Owners} \ {NoUser}

\* the store and the roles outlive the process: any content may be there
\* when the bot starts; the token cache and the loop start as constructed
InitWith(tables, dests, roleSets, n) ==
  /\ users \in tables
  /\ dest \in dests
  /\ liveRole \in roleSets
  /\ watch \in IF Registered(users) = {} THEN {"t1"} ELSE Registered(users)
  /\ marker \in {m \in [Tids -> StreamIds \cup {None}] :
                   \A t \in Tids \ Registered(users) : m[t] = None}
  /\ hasRole \in {h \in [Guilds -> SUBSET Owners] :
                    \A g \in Guilds :
                      /\ h[g] \subseteq {o \in Members(g) : users[o] # NoUser}
                      /\ g \notin liveRole => h[g] = {}}
  /\ token = None
  /\ tokenExpiry = 0
  /\ now = 0
  /\ lastCall = NoCall
  /\ loopState = "running"
  /\ ticksLeft = n
  /\ pc = "idle"
  /\ gi = 1
  /\ ri = 1
  /\ rows = <<>>
  /\ streams = NoStreams
  /\ u = None
  /\ raisedAt = "none"
  /\ reconciled = {}
  /\ fetchKind = "none"
  /\ watchFail = FALSE
  /\ otherFail = FALSE
  /\ storeFail = FALSE
  /\ preMarker = None
  /\ passSent = 0
  /\ tickObs = "unset"
  /\ hist = IF marker[watch] = None THEN Phase("start", "") ELSE Lost
  /\ sent = 0
  /\ runId = None
  /\ runSent = 0
  /\ lastFetch = NoFetch
  /\ lastResolve = NoResolve
  /\ stamp = 0
  /\ stampVaried = FALSE
  /\ prevObs = "unknown"
  /\ ppc = "idle"
  /\ pStream = ""
  /\ pSent = None

\* ---- inputs of the steps: which outcomes the environment may produce
AllOutcomes ==
  [fetch |-> FetchOutcomes, db |-> BOOLEAN, lookup |-> LookupOutcomes,
   tokenOk |-> BOOLEAN, send |-> BOOLEAN, side |-> BOOLEAN, set |-> BOOLEAN, stamp |-> {0}]
\* only channel.send and the role calls may raise
SideOutcomes ==
  [fetch |-> {"ok"}, db |-> {TRUE}, lookup |-> {"ok"},
   tokenOk |-> {TRUE}, send |-> BOOLEAN, side |-> BOOLEAN, set |-> {TRUE}, stamp |-> {0}]
\* the send, the role calls and the store calls may raise
StoreOutcomes ==
  [fetch |-> {"ok"}, db |-> BOOLEAN, lookup |-> {"ok"},
   tokenOk |-> {TRUE}, send |-> BOOLEAN, side |-> BOOLEAN, set |-> BOOLEAN, stamp |-> {0}]
\* no call fails
CleanOutcomes ==
  [fetch |-> {"ok"}, db |-> {TRUE}, lookup |-> {"ok"},
   tokenOk |-> {TRUE}, send |-> {TRUE}, side |-> {TRUE}, set |-> {TRUE}, stamp |-> {0}]

ResponsesOf(E) ==
  {r \in TickResponses : r = GoodResponse \/ FALSE \in E.tokenOk}

NextWith(E) ==
  \/ TickStart
  \/ \E dbOk \in E.db : GuildSkip(dbOk)
  \/ \E out \in E.fetch, obs \in StreamsFor(users), resp \in ResponsesOf(E),
        sa \in E.stamp \cup {stamp} :
       GuildFetch(out, obs, resp, sa)
  \/ \E dbOk \in E.db : RowBegin(dbOk)
  \/ \E out \in E.lookup, resp \in ResponsesOf(E) : Lookup(out, resp)
  \/ \E sendOk \in E.send, setOk \in E.set : Post(sendOk, setOk)
  \/ \E ok \in E.side : AddRole(ok)
  \/ \E ok \in E.side : RemoveRole(ok)
  \/ PassEnd
  \/ TickEnd

\* two owners with their own subjects; two owners sharing one; nobody
UserTables == {UserTable("t1", "t2", NoUser), UserTable("t1", "t1", NoUser),
               UserTable(NoUser, NoUser, NoUser)}
DestTables == {DestTable("text", "text"), DestTable("text", "none"),
               DestTable("other", "text")}

\* Spec: one run of check_live from any store content, any call may fail
Init == InitWith(UserTables, DestTables, {{1, 2}, {1}}, MaxTicks)
Next == NextWith(AllOutcomes)
Spec == Init /\ [][Next]_vars

\* SpecRetry: consecutive runs in one community; the send, the role calls
\* and the store calls may fail
InitRetry ==
  InitWith({UserTable("t1", "t2", NoUser)}, {DestTable("text", "none")},
           {{1}}, RetryTicks)
NextRetry == NextWith(StoreOutcomes)
SpecRetry == InitRetry /\ [][NextRetry]_vars

\* SpecSeq: consecutive runs in which no call fails
InitSeq ==
  InitWith({UserTable("t1", "t2", NoUser), UserTable("t1", "t1", NoUser)},
           {DestTable("text", "text"), DestTable("text", "none")},
           {{1, 2}}, SeqTicks)
NextSeq == NextWith(CleanOutcomes)
SpecSeq == InitSeq /\ [][NextSeq]_vars

\* SpecStamp: consecutive runs in which no call fails and the responses
\* report either of two started_at values for a live stream
StampOutcomes ==
  [fetch |-> {"ok"}, db |-> {TRUE}, lookup |-> {"ok"},
   tokenOk |-> {TRUE}, send |-> {TRUE}, side |-> {TRUE}, set |-> {TRUE}, stamp |-> {1, 2}]
InitStamp ==
  InitWith({UserTable("t1", "t2", NoUser)}, {DestTable("text", "none")},
           {{1}}, StampTicks)
NextStamp == NextWith(StampOutcomes)
SpecStamp == InitStamp /\ [][NextStamp]_vars

\* SpecRole: consecutive runs in one community; channel.send and the role
\* calls may fail
InitRole ==
  InitWith({UserTable("t1", "t2", NoUser), UserTable("t1", "t1", NoUser)},
           {DestTable("text", "none")}, {{1}}, RoleTicks)
NextRole == NextWith(SideOutcomes)
SpecRole == InitRole /\ [][NextRole]_vars

\* SpecRoleFail: as SpecRole, but only the role calls may fail
RoleOutcomes ==
  [fetch |-> {"ok"}, db |-> {TRUE}, lookup |-> {"ok"}, tokenOk |-> {TRUE},
   send |-> {TRUE}, side |-> BOOLEAN, set |-> {TRUE}, stamp |-> {0}]
InitOne ==
  InitWith({UserTable("t1", "t2", NoUser)}, {DestTable("text", "none")},
           {{1}}, RoleTicks)
NextRoleFail == NextWith(RoleOutcomes)
SpecRoleFail == InitOne /\ [][NextRoleFail]_vars

\* SpecSendFail: as SpecRole, but only post_go_live may fail (channel.send
\* raises, or the profile lookup found nothing)
SendOutcomes ==
  [fetch |-> {"ok"}, db |-> {TRUE}, lookup |-> {"ok", "none"},
   tokenOk |-> {TRUE},
   send |-> BOOLEAN, side |-> {TRUE}, set |-> {TRUE}, stamp |-> {0}]
NextSendFail == NextWith(SendOutcomes)
SpecSendFail == InitOne /\ [][NextSendFail]_vars

\* SpecRace: a check_live run and one on_presence_update handler for watch's
\* member, interleaved at their suspension points; no call fails
InitRace ==
  InitWith({UserTable("t1", "t2", NoUser)}, {DestTable("text", "none")},
           {{1}}, RaceTicks)
NextRace ==
  \/ NextWith(CleanOutcomes)
  \/ \E evt \in {"started", "stopped"} : PresenceStart(evt)
  \/ PresenceUnrole(TRUE)
  \/ PresenceResolve(TRUE)
  \/ \E sv \in StreamValues : PresenceFetch("ok", sv)
  \/ PresenceSend(TRUE)
  \/ PresenceRole(TRUE)
SpecRace == InitRace /\ [][NextRace]_vars

\* SpecIso: one community with three registered rows; only the send and the
\* role calls may fail
InitIso ==
  InitWith({UserTable("t1", "t2", "t3")}, {DestTable("text", "none")},
           {{1}}, IsoTicks)
NextIso == NextWith(SideOutcomes)
SpecIso == InitIso /\ [][NextIso]_vars

\* SpecToken: calls of _get_token as the clock advances second by second
InitTok ==
  InitWith({UserTable(NoUser, NoUser, NoUser)}, {DestTable("none", "none")},
           {{}}, 0)

\* expires_in values around the 60 second margin, or none in the response
TokenResponses ==
  {TokenResponse(Issue(token), e) : e \in {60, 61, 62}}
    \cup {BareResponse(Issue(token)), BareResponse(None)}

\* _headers, lines 150-152: one call of _get_token
TokenCall(resp) ==
  /\ pc = "idle"
  /\ LET tk == get_token(token, tokenExpiry, now, resp)
     IN /\ token' = tk.token
        /\ tokenExpiry' = tk.expiry
        /\ lastCall' = CallRecord(token, tokenExpiry, now, resp, tk)
  /\ UNCHANGED <<cfgVars, apiVars, presVars, stampVars, prevObs, storeVars, now, loopState, ticksLeft, frameVars,
                 raisedAt, reconciled, passVars, seqVars>>

\* time.time() moves on
Advance ==
  /\ pc = "idle"
  /\ now < MaxNow
  /\ now' = now + 1
  /\ UNCHANGED <<cfgVars, apiVars, presVars, stampVars, prevObs, storeVars, tokenVars, loopState, ticksLeft,
                 frameVars, raisedAt, reconciled, passVars, seqVars>>

NextTok ==
  \/ \E resp \in TokenResponses : TokenCall(resp)
  \/ Advance
SpecToken == InitTok /\ [][NextTok]_vars

\* names a user may type: a login, mixed case, "@login", padded with a
\* blank, a profile URL
NameInputs ==
  {<<"a">>, <<"A">>, <<"b">>, <<"@", "a">>, <<" ", "a">>, <<"a", " ">>,
   <<"U", "a">>}
\* entries of a search_channels response
Channel(i, d) == [id |-> i, broadcaster_login |-> Lower(d), display_name |-> d]
Channels ==
  {Channel("t1", <<"A">>), Channel("t1", <<"b">>),
   Channel("t2", <<"a">>), Channel("t2", <<"b">>)}
ChannelLists == UNION {[1..n -> Channels] : n \in 0..MaxChans}
\* what get_user_by_login can return
LookupResults ==
  {NoProfile, [id |-> "t3", login |-> <<"a">>, display_name |-> <<"A">>]}

\* one call of resolve_user (twitch_set, line 396; on_presence_update, line
\* 337); the token is renewed by the first request when it is not fresh
ResolveCall(name, found, chans) ==
  /\ pc = "idle"
  /\ found # NoProfile => chans = <<>>
  /\ LET tk == get_token(token, tokenExpiry, now, GoodResponse)
         res == resolve_user(name, found, chans)
     IN /\ token' = tk.token
        /\ tokenExpiry' = tk.expiry
        /\ lastCall' = CallRecord(token, tokenExpiry, now, GoodResponse, tk)
        /\ lastResolve' = ResolveRecord(name, found, chans, res)
  /\ UNCHANGED <<cfgVars, presVars, stampVars, prevObs, storeVars, now, lastFetch,
                 loopState, ticksLeft, frameVars, raisedAt, reconciled,
                 passVars, seqVars>>

\* SpecResolve: resolve_user calls with any name, lookup result and search
\* result
NextResolve ==
  \E name \in NameInputs, found \in LookupResults, chans \in ChannelLists :
        ResolveCall(name, found, chans)
SpecResolve == InitTok /\ [][NextResolve]_vars

\* id lists a caller may pass to get_streams
IdLists == {<<>>, <<"t1">>, <<"t1", "t2">>}
StreamsForIds(ids) ==
  {obs \in [Tids -> {NoStream, Live("A")}] : obs = Only(ids, obs)}

\* a direct call of get_streams(ids), e.g. line 352
StreamsCall(ids, resp, out, obs) ==
  /\ pc = "idle"
  /\ out # "ok" => obs = NoStreams
  /\ LET res == get_streams_call(ids, token, tokenExpiry, now, resp, out, obs)
     IN /\ token' = res.token
        /\ tokenExpiry' = res.expiry
        /\ lastFetch' = FetchRecord(ids, token, res)
  /\ UNCHANGED <<cfgVars, presVars, stampVars, prevObs, storeVars, now, lastCall,
                 lastResolve, loopState, ticksLeft,
                 frameVars, raisedAt, reconciled, passVars, seqVars>>

\* SpecFetch: direct get_streams calls with any token cache content
NextFetch ==
  \/ Advance
  \/ \E ids \in IdLists, resp \in TokenResponses,
        out \in {"ok", "non2xx", "transport"} :
          \E obs \in StreamsForIds(ids) : StreamsCall(ids, resp, out, obs)
SpecFetch == InitTok /\ [][NextFetch]_vars

\* ================================================================== claims
PassDone == pc = "row" /\ ri > Len(rows)
PassClean == fetchKind = "ok" /\ ~watchFail /\ ~otherFail /\ ~storeFail
RunsDone(n) == n - ticksLeft

\* C1 (SpecSeq): when every run so far was failure-free and observed the
\* subject live with one and the same non-empty stream id, and the subject
\* had no marker to begin with, exactly one announcement has been sent for it
\* after any number of runs.
DedupExactlyOnce ==
  (pc = "idle" /\ hist.ph = "L") => sent = 1

DedupWitness ==
  /\ pc = "idle"
  /\ hist.ph = "L"
  /\ RunsDone(SeqTicks) >= 2
  /\ sent = 1
  /\ marker[watch] = hist.id

\* C2 (SpecRetry): within one session of a subject (consecutive fetches that
\* observe it with the same stream id) at most one announcement is sent, also
\* when send, role or store calls fail.
AtMostOncePerSession == runSent <= 1

\* C3 (SpecSeq): failure-free runs observing the subject live with id A, then
\* offline, then live with A again send two announcements in all; after the
\* offline run the marker is gone.
ReannounceAfterGap ==
  /\ (pc = "idle" /\ hist.ph = "LO") => (marker[watch] = None /\ sent = 1)
  /\ (pc = "idle" /\ hist.ph = "LOL") => sent = 2

ReannounceWitness ==
  /\ pc = "idle"
  /\ hist.ph = "LOL"
  /\ sent = 2
  /\ marker[watch] = hist.id

\* what the pass must leave for the row of owner o in guild g
RowConverged(g, o) ==
  LET t == users[o]
      st == streams[t]
  IN /\ (st.live /\ st.id # "") =>
          /\ marker[t] = st.id
          /\ g \in liveRole => o \in hasRole[g]
     /\ ~st.live =>
          /\ marker[t] = None
          /\ g \in liveRole => o \notin hasRole[g]

\* C4 (Spec): whatever marker and role state the pass of a community with a
\* text-channel destination started from, when it ends without any failure
\* every registered row whose member is in the guild has marker = S and the
\* live role if observed live with id S, and no marker and no live role if
\* absent from the response (roles: where the live role resolves).
Convergence ==
  (PassDone /\ PassClean) =>
     \A i \in 1..Len(rows) :
        rows[i] \in Members(gi) => RowConverged(gi, rows[i])

ConvergenceWitness ==
  /\ PassDone
  /\ PassClean
  /\ gi \in liveRole
  /\ streams[watch].live
  /\ preMarker \notin {None, streams[watch].id}
  /\ marker[watch] = streams[watch].id
  /\ \E o \in Members(gi) : users[o] = watch /\ o \in hasRole[gi]
  /\ \E o \in Members(gi) :
        /\ users[o] \notin {watch, NoUser}
        /\ ~streams[users[o]].live
        /\ marker[users[o]] = None
        /\ o \notin hasRole[gi]

\* the outcome of a pass for watch that the observation and the marker at
\* fetch time call for
ExpectedSent ==
  IF streams[watch].live /\ streams[watch].id # "" /\ preMarker # streams[watch].id
  THEN 1 ELSE 0
ExpectedMarker ==
  IF ~streams[watch].live THEN None
  ELSE IF streams[watch].id = "" THEN preMarker ELSE streams[watch].id
WatchOutcome ==
  /\ passSent = ExpectedSent
  /\ marker[watch] = ExpectedMarker
  /\ \A i \in 1..Len(rows) :
        (users[rows[i]] = watch /\ rows[i] \in Members(gi) /\ gi \in liveRole)
           => (rows[i] \in hasRole[gi] <=> streams[watch].live)

\* C5 (SpecIso): a pass in which the send or a role call of other subjects
\* raised (before or after the subject watched) still ends with the watched
\* subject reconciled as the observation calls for: its announcement sent,
\* its marker written or deleted, its role corrected.
IsolationOfSideEffects ==
  (PassDone /\ fetchKind = "ok" /\ ~watchFail /\ ~storeFail) => WatchOutcome

IsolationWitness ==
  /\ PassDone
  /\ otherFail
  /\ ~watchFail
  /\ watch = "t2"
  /\ passSent = 1
  /\ marker["t1"] # streams["t1"].id /\ streams["t1"].live
  /\ marker["t3"] = streams["t3"].id /\ streams["t3"].live
  /\ preMarker # marker[watch]
  /\ hasRole[gi] = {2, 3}

\* C6 (Spec): an exception of the profile lookup is caught at its subject:
\* it never leaves check_live.
LookupFailureIsolated == raisedAt # "lookup"

\* C7 (Spec): a pass whose streams request failed (exception or error
\* status) changes no marker and no role.
FailedFetchChangesNothing ==
  [][(fetchKind = "non2xx" \/ raisedAt' = "fetch")
       => (marker' = marker /\ hasRole' = hasRole)]_vars

\* C8 (Spec): when the streams fetch raises for one community, every later
\* community with a destination and registered rows is still reconciled in
\* the same run.
PerCommunityAbort ==
  raisedAt = "fetch" =>
     \A g \in Guilds :
        (g > gi /\ dest[g] = "text" /\ db_list_users(users) # <<>>)
           => g \in reconciled

\* C9 (Spec): no exception leaves the body of check_live, so the loop is
\* never ended by one.
NoFailureEscapes == raisedAt = "none" /\ loopState = "running"

\* C10 (SpecToken): a _get_token call returns the cached token without an
\* exchange exactly when a token is cached and more than 60 seconds remain;
\* otherwise it makes one exchange and what it returns is the token of that
\* exchange.
TokenCacheThreshold ==
  lastCall # NoCall =>
    LET fresh == lastCall.cached # None /\ lastCall.remaining > 60
    IN /\ (lastCall.exch = 0 /\ lastCall.ret = lastCall.cached) <=> fresh
       /\ ~fresh =>
            /\ lastCall.exch = 1
            /\ lastCall.ret # "raise" =>
                 /\ lastCall.ret = lastCall.issued
                 /\ lastCall.after = lastCall.issued
                 /\ lastCall.ret # lastCall.cached

TokenBoundaryWitness ==
  /\ lastCall.cached # None
  /\ lastCall.remaining = 60
  /\ lastCall.exch = 1
  /\ lastCall.ret = lastCall.issued
  /\ lastCall.ret # lastCall.cached

\* C11 (SpecToken): a _get_token call whose exchange response lacks
\* access_token raises and leaves the cached token and the cached expiry as
\* they were; the cache is then still not reusable, so the next call makes
\* an exchange again.
FailedExchangeKeepsCache ==
  [][(now' = now /\ lastCall'.ret = "raise")
       => /\ token' = token
          /\ tokenExpiry' = tokenExpiry
          /\ ~TokenFresh(token', tokenExpiry', now')]_vars

FailedExchangeWitness ==
  /\ lastCall.ret = "raise"
  /\ lastCall.exch = 1
  /\ lastCall.cached # None
  /\ token = lastCall.cached
  /\ tokenExpiry > 0

\* C12 (SpecFetch): get_streams called with an empty id list returns the
\* empty mapping and makes neither a token exchange nor a streams request,
\* whatever the token cache holds.
EmptyBatchShortCircuit ==
  lastFetch.ids = <<>> =>
     /\ ~lastFetch.raised
     /\ lastFetch.ret = NoStreams
     /\ lastFetch.exch = 0
     /\ lastFetch.reqs = 0

EmptyBatchWitness ==
  /\ lastFetch.ids = <<>>
  /\ lastFetch.cached = None
  /\ ~lastFetch.raised
  /\ lastFetch.ret = NoStreams
  /\ lastFetch.exch = 0
  /\ token = None

\* C13 (SpecStamp): the announcements sent and the marker follow the stream
\* ids the runs observed, whatever started_at the responses report: with
\* varying started_at a subject observed live with one id in every run has
\* one announcement and its marker is that id; after an offline run one
\* announcement and no marker; live with the id again, two.
StampIgnored ==
  (pc = "idle" /\ stampVaried) =>
     /\ hist.ph = "L" => (sent = 1 /\ marker[watch] = hist.id)
     /\ hist.ph = "LO" => (sent = 1 /\ marker[watch] = None)
     /\ hist.ph = "LOL" => (sent = 2 /\ marker[watch] = hist.id)

StampWitness ==
  /\ pc = "idle"
  /\ stampVaried
  /\ hist.ph = "L"
  /\ RunsDone(StampTicks) >= 2
  /\ sent = 1
  /\ marker[watch] = hist.id

\* the row loop stands at a role step of watch's row that will call
\* add_roles or remove_roles
RoleCallDue ==
  /\ pc \in {"addrole", "rmrole"}
  /\ CurTid = watch
  /\ RoleApplies
  /\ pc = "addrole" => CurOwner \notin hasRole[gi]
  /\ pc = "rmrole" => CurOwner \in hasRole[gi]

\* C14 (SpecRole): when the previous run observed the same live/offline
\* status for the subject and none of its send or role calls raised, this
\* run makes no add_roles and no remove_roles call for the subject's member.
RoleIdempotent ==
  RoleCallDue => prevObs # StatusOf(CurStream)

RoleIdempotentWitness ==
  /\ RunsDone(RoleTicks) = 3
  /\ hist.ph = "LO"
  /\ prevObs = "off"
  /\ pc = "rmrole"
  /\ CurTid = watch
  /\ RoleApplies
  /\ CurOwner \notin hasRole[gi]

\* C15 (SpecRoleFail): whether or not a role call raised, a pass leaves the
\* subject's marker as its announce or offline branch set it, and in every
\* pass (with an announcement due or not) the subject's role is either made
\* to match the observed status or its role call was made and raised.
RoleFailureKeepsMarker ==
  (PassDone /\ fetchKind = "ok") =>
     /\ passSent = ExpectedSent
     /\ marker[watch] = ExpectedMarker
     /\ \A i \in 1..Len(rows) :
           (users[rows[i]] = watch /\ rows[i] \in Members(gi) /\ gi \in liveRole)
              => \/ rows[i] \in hasRole[gi] <=> streams[watch].live
                 \/ watchFail

RoleRetryWitness ==
  /\ RunsDone(RoleTicks) >= 2
  /\ PassDone
  /\ prevObs = "unknown"
  /\ watchFail
  /\ streams[watch].live
  /\ preMarker = streams[watch].id
  /\ passSent = 0
  /\ marker[watch] = streams[watch].id
  /\ \E i \in 1..Len(rows) :
        /\ users[rows[i]] = watch
        /\ rows[i] \in Members(gi)
        /\ rows[i] \notin hasRole[gi]

\* an announcement for watch is due in this pass
AnnounceDue ==
  /\ streams[watch].live
  /\ streams[watch].id # ""
  /\ preMarker # streams[watch].id

\* C16 (SpecSendFail): in a pass that observes the subject live, the marker
\* is the observed id only if the send for it returned; when the send raised
\* the marker is what it was before the pass; and every pass that finds the
\* marker different from the observed id makes the send (again).
MarkerAfterSend ==
  (PassDone /\ fetchKind = "ok" /\ streams[watch].live) =>
     /\ marker[watch] = IF passSent = 1 THEN streams[watch].id ELSE preMarker
     /\ AnnounceDue => (passSent = 1 \/ (watchFail /\ passSent = 0))
     /\ ~AnnounceDue => passSent = 0

SendRetryWitness ==
  /\ RunsDone(RoleTicks) >= 2
  /\ PassDone
  /\ prevObs = "unknown"
  /\ preMarker = None
  /\ passSent = 1
  /\ ~watchFail
  /\ marker[watch] = streams[watch].id

\* C17 (Spec): a step of check_live at a guild whose destination is missing
\* or not a text channel makes no token or streams request, sends nothing,
\* changes no marker and no role, and goes on to the next guild (or the
\* store read raises).
NoDestinationNoOp ==
  [][(pc = "guild" /\ gi \in Guilds /\ dest[gi] # "text")
       => /\ marker' = marker
          /\ hasRole' = hasRole
          /\ token' = token /\ tokenExpiry' = tokenExpiry
          /\ lastCall' = lastCall
          /\ passSent' = passSent /\ runSent' = runSent
          /\ reconciled' = reconciled
          /\ \/ pc' = "guild" /\ gi' = gi + 1
             \/ raisedAt' = "store"]_vars

NoDestinationWitness ==
  /\ pc = "guild"
  /\ gi = 2
  /\ dest[1] = "other"
  /\ raisedAt = "none"
  /\ reconciled = {}
  /\ lastCall = NoCall
  /\ marker[watch] # None
  /\ 1 \in liveRole
  /\ \E o \in hasRole[1] : users[o] = watch

\* index of the first search result whose display name equals the name
\* typed, ignoring case (0: none)
FirstExact(chans, name) ==
  LET hits == {i \in 1..Len(chans) :
                 Lower(chans[i].display_name) = Lower(name)}
  IN IF hits = {} THEN 0 ELSE CHOOSE i \in hits : \A j \in hits : i <= j

\* C18 (SpecResolve): resolve_user returns the direct lookup result when
\* there is one; otherwise the first search result whose display name equals
\* the input ignoring case, else the first search result, else None.
ResolveFallback ==
  lastResolve.called =>
    LET r == lastResolve
        k == FirstExact(r.chans, r.name)
    IN IF r.found # NoProfile THEN r.ret = r.found /\ ~r.searched
       ELSE IF k # 0 THEN r.ret = FromChannel(r.chans[k])
       ELSE IF r.chans # <<>> THEN r.ret = FromChannel(r.chans[1])
       ELSE r.ret = NoProfile

ResolveFallbackWitness ==
  /\ lastResolve.called
  /\ lastResolve.found = NoProfile
  /\ Len(lastResolve.chans) = 2
  /\ FirstExact(lastResolve.chans, lastResolve.name) = 2
  /\ lastResolve.name # lastResolve.chans[2].display_name
  /\ lastResolve.ret = FromChannel(lastResolve.chans[2])
  /\ lastResolve.ret # FromChannel(lastResolve.chans[1])

\* the canonical handle of a name: the URL prefix, a leading "@" and
\* surrounding blanks removed, then lower case
StripPrefix(w, c) == IF w # <<>> /\ Head(w) = c THEN Tail(w) ELSE w
RECURSIVE StripBlanks(_)
StripBlanks(w) ==
  IF w = <<>> THEN w
  ELSE IF Head(w) = " " THEN StripBlanks(Tail(w))
  ELSE IF w[Len(w)] = " " THEN StripBlanks(SubSeq(w, 1, Len(w) - 1))
  ELSE w
Canon(w) == Lower(StripBlanks(StripPrefix(StripPrefix(w, "U"), "@")))

\* C19 (SpecResolve): whatever form the name is given in (profile URL,
\* "@handle", padded with blanks, mixed case), resolve_user passes the
\* canonical lower-case bare handle to its direct lookup.
LookupUsesCanonicalHandle ==
  lastResolve.called => lastResolve.arg = Canon(lastResolve.name)

\* C20 (SpecRace): however a check_live run and an on_presence_update
\* handler interleave, they do not both send an announcement for the same
\* subject and the same stream id.
NoDuplicateFromRace ==
  ~(pSent # None /\ runId = pSent /\ runSent >= 1)

\* C21 (SpecRole): a pass that observes the subject live with a missing or
\* empty stream id never enters the announce branch for it: it sends nothing
\* for the subject and leaves its marker as it was (neither written nor
\* deleted), while the live role is made present on the member (or its
\* add_roles call was made and raised); over consecutive runs that observe
\* an empty id no announcement is ever sent.
MissingIdNoAnnouncement ==
  /\ (pc \in {"lookup", "post"} /\ CurTid = watch) => CurStream.id # ""
  /\ runId = "" => runSent = 0
  /\ (PassDone /\ fetchKind = "ok" /\ streams[watch] = Live("")) =>
        /\ passSent = 0
        /\ marker[watch] = preMarker
        /\ \A i \in 1..Len(rows) :
              (users[rows[i]] = watch /\ rows[i] \in Members(gi) /\ gi \in liveRole)
                 => (rows[i] \in hasRole[gi] \/ watchFail)

MissingIdWitness ==
  /\ RunsDone(RoleTicks) = 3
  /\ PassDone
  /\ fetchKind = "ok"
  /\ streams[watch] = Live("")
  /\ prevObs = "live"
  /\ runId = ""
  /\ ~watchFail
  /\ preMarker = "A"
  /\ marker[watch] = "A"
  /\ passSent = 0
  /\ \E i \in 1..Len(rows) : users[rows[i]] = watch /\ rows[i] \in hasRole[gi]

\* the pass of the second community is done, the first community has a
\* text destination and was reconciled in this run, and both fetches of the
\* run observed watch live with the same non-empty stream id
SecondPassDone ==
  /\ PassDone
  /\ gi = 2
  /\ dest[1] = "text"
  /\ 1 \in reconciled
  /\ tickObs \in StreamIds

\* C22 (SpecSeq): with two communities that both have a text destination, a
\* failure-free run that observes a new session of the subject (no marker
\* for it when the run began) announces it once, in the first community: the
\* pass of the second community finds the marker written, sends nothing and
\* only ensures the live role on the member; a session announced by an
\* earlier run is announced in neither.
OneAnnouncementAcrossCommunities ==
  SecondPassDone =>
     /\ preMarker = tickObs
     /\ passSent = 0
     /\ marker[watch] = tickObs
     /\ hist.ph = "start" => sent = 1
     /\ (hist.ph = "L" /\ hist.id = tickObs) => sent = 1
     /\ (hist.ph = "LO" /\ hist.id = tickObs) => sent = 2
     /\ \A i \in 1..Len(rows) :
           (users[rows[i]] = watch /\ rows[i] \in Members(gi) /\ gi \in liveRole)
              => rows[i] \in hasRole[gi]

AcrossCommunitiesWitness ==
  /\ SecondPassDone
  /\ hist.ph = "start"
  /\ RunsDone(SeqTicks) = 1
  /\ tickObs = "A"
  /\ sent = 1
  /\ passSent = 0
  /\ marker[watch] = "A"
  /\ \E i \in 1..Len(rows) :
        /\ users[rows[i]] = watch
        /\ rows[i] \in hasRole[1]
        /\ rows[i] \in hasRole[2]

\* owners 1 and 2 are both registered with watch
SharedSubject == users[1] = watch /\ users[2] = watch

\* C23 (SpecSeq): when two owners are registered with the same subject id, a
\* failure-free pass that observes the subject live with a stream id other
\* than its marker sends one announcement, not one per registration, and
\* leaves the live role on both owners' members (where they are members and
\* the role resolves); the first run from an empty marker has sent exactly
\* one announcement when it returns.
SharedSubjectOneAnnouncement ==
  /\ (PassDone /\ SharedSubject /\ AnnounceDue) =>
        /\ passSent = 1
        /\ marker[watch] = streams[watch].id
        /\ \A o \in {1, 2} :
              (o \in Members(gi) /\ gi \in liveRole) => o \in hasRole[gi]
  /\ (pc = "idle" /\ SharedSubject /\ hist.ph = "L") => sent = 1

SharedSubjectWitness ==
  /\ PassDone
  /\ SharedSubject
  /\ AnnounceDue
  /\ gi = 1
  /\ rows = <<1, 2>>
  /\ preMarker = None
  /\ passSent = 1
  /\ marker[watch] = streams[watch].id
  /\ {1, 2} \subseteq hasRole[1]
====
